---- MODULE Spec2Model ----
(***************************************************************************)
(* Resilient HTTP access layer of Soccer Scout AI:                         *)
(*   ResilientHTTPClient (src/utils/http_client.py): retry loop, urllib3   *)
(*   Retry adapter mounted on the session, circuit breaker, telemetry;     *)
(*   InMemoryCache (src/utils/cache_service.py): TTL cache with sweep.     *)
(* Time is in seconds.  Every shared-attribute access of the client is a   *)
(* step of its own, so that calls run by get_async on executor threads     *)
(* interleave as threads do.                                               *)
(***************************************************************************)
EXTENDS Integers, FiniteSets, Sequences, TLC

\* ----------------------------------------------------------------- bounds
MaxRetries == 2          \* largest max_retries a client is built with
MaxThreshold == 2        \* largest circuit_breaker_threshold
MaxRequests == 2         \* get calls started on one client
MaxNow == 61             \* the clock stops advancing here
AsyncRetries == 1        \* largest max_retries of a client used concurrently
MaxBase == 2             \* largest backoff_base_seconds, in half seconds
MaxCap == 4              \* largest backoff_cap_seconds, in half seconds

\* self.circuit_reset_timeout = 60
circuit_reset_timeout == 60

\* The calls that can be in progress at once; get_async runs each on an
\* executor thread.
Calls == {1, 2}
\* circuit_breaker_threshold of a client used concurrently
AsyncThresholds == {1, 2}
\* The caller that uses the synchronous get: one call at a time.
SeqCalls == {1}

\* backoff_base_seconds: float = 0.5 and backoff_cap_seconds: float = 8.0, in
\* half seconds
default_backoff_base == 1
default_backoff_cap == 16

\* No call of _sleep_with_backoff yet
NoSleep == [branch |-> "none"]

\* requests.Timeout / requests.ConnectionError: no response, written as status 0
NetErr == 0

\* What one request sent to the upstream can come back as: a status code or NetErr.
Outcomes == {200, 304, 404, 429, 503, NetErr}

\* The clock advances by these amounts (seconds).
TickSteps == {circuit_reset_timeout, circuit_reset_timeout + 1}

VARIABLES
    max_retries,                \* constructor arguments
    circuit_breaker_threshold,
    backoff_base_seconds,       \* in half seconds
    backoff_cap_seconds,        \* in half seconds
    consecutive_failures,       \* circuit breaker
    circuit_open,
    last_failure_time,
    request_count,              \* telemetry
    error_count,
    rate_limit_count,
    now,                        \* time.time()
    pc,                         \* per call: where it is in get
    attempt,                    \* per call: loop variable of get
    inner,                      \* per call: retries urllib3 has used in this session.get
    tmp,                        \* per call: value loaded by a += in progress
    after,                      \* per call: where _record_failure returns to
    \* history of the call in progress (not program state), kept when track holds
    track,
    netAttempts,                \* requests that reached the upstream
    trail,                      \* summary of the outcomes the upstream gave, see TrailNext
    result,                     \* how the call ended: "none" (it has not), "blocked", "returned"
                                \* (2xx), "returned_raw" (another status, as it came), "raised"
    cancelled,                  \* per call: whether the coroutine awaiting it in get_async has
                                \* been cancelled: "no", "boundary" (before an attempt or in a
                                \* sleep), "during" (at another point of get)
    sleep_in, sleep_out,        \* the last _sleep_with_backoff call: its arguments and jitter,
                                \* and the branch it took and time it slept
    lazy,                       \* the breaker check of the call found the breaker open and timed out
    ec0, cf0,                   \* error_count / consecutive_failures when the breaker let the call pass
    failedCalls                 \* calls that raised since the breaker was last closed with counter 0

httpVars == <<max_retries, circuit_breaker_threshold, backoff_base_seconds,
              backoff_cap_seconds, cancelled, sleep_in, sleep_out, consecutive_failures,
              circuit_open, last_failure_time, request_count, error_count,
              rate_limit_count, now, pc, attempt, inner, tmp, after,
              track, netAttempts, trail, result, lazy, ec0, cf0, failedCalls>>

VARIABLES
    default_ttl_seconds,        \* InMemoryCache: constructor argument
    cache,                      \* self._cache: key -> entry, for the keys stored
    lock,                       \* self._lock: the thread holding it, 0 when free
    hits, misses, sets, evictions,
    cpc,                        \* per thread: where it is in a cache operation
    ckey, cvalue,               \* per thread: arguments of the operation in progress
    cexpires,                   \* per thread: local expires_at of set
    cttl,                       \* per thread: ttl_seconds its set was called with
    ret,                        \* per thread: what its get returned, until its next call
    latest,                     \* key -> value and expiry of the latest set not deleted since
                                \* (history, not program state)
    getCalls, setCalls          \* get / set calls that have returned (history)

cacheVars == <<default_ttl_seconds, cache, lock, hits, misses, sets, evictions,
               cpc, ckey, cvalue, cexpires, cttl, ret, latest, getCalls, setCalls>>

VARIABLES
    smart,                      \* SmartCache: attribute -> the InMemoryCache it holds
    sret                        \* what the last get accessor returned

smartVars == <<smart, sret>>

VARIABLES
    caller,                     \* who is calling get_player_complete_profile: "none", "service"
                                \* (a request handler) or "warm" (warm_popular_caches)
    cpos,                       \* where that call is: "idle", "await" (in get_async), "ret"
    pid,                        \* its player_id, as argument tuple
    profile                     \* what it returned: "none" (nothing yet), "real", "mock",
                                \* or the cached value

callerVars == <<caller, cpos, pid, profile>>

vars == <<httpVars, cacheVars, smartVars, callerVars>>

\* ------------------------------------------------------- ResilientHTTPClient

\* status_forcelist=[429, 500, 502, 503, 504] of the Retry mounted on the session
status_forcelist == {429, 500, 502, 503, 504}

\* 200 <= response.status_code < 300
IsSuccess(o) == 200 <= o /\ o < 300

\* 400 <= response.status_code < 500
IsClientError(o) == 400 <= o /\ o < 500

\* response.status_code in (500, 502, 503, 504)
IsServerError(o) == o \in {500, 502, 503, 504}

\* time.time() - self.last_failure_time > self.circuit_reset_timeout
ResetElapsedGE(t, lft) == t - lft >= circuit_reset_timeout
ResetElapsed(t, lft) == t - lft > circuit_reset_timeout

\* self.consecutive_failures >= self.circuit_breaker_threshold
ThresholdReachedGT(cf, thr) == cf > thr
ThresholdReached(cf, thr) == cf >= thr

\* Retry(total=max_retries, status_forcelist=..., raise_on_status=False): the
\* adapter resends by itself while it has retries left and the outcome is a
\* listed status or a connection/read error.
AdapterRetries(o, used, total) ==
    /\ used < total
    /\ (o = NetErr \/ o \in status_forcelist)

\* The outcomes a call has had from the upstream so far, summarised:
\*   "empty"    none yet
\*   "fatal"    only 404
\*   "all503"   only 503
\*   "retry"    only 429, 503 or network errors, not all of them 503
\*   "retry_ok" 429, 503 or network errors (or nothing), then one 200
\*   "mixed"    anything else
Retryable == {429, 503, NetErr}
TrailNext(t, o) ==
    CASE t = "empty" /\ o = 404 -> "fatal"
      [] t = "fatal" /\ o = 404 -> "fatal"
      [] t \in {"empty", "all503"} /\ o = 503 -> "all503"
      [] t \in {"empty", "all503", "retry"} /\ o \in Retryable -> "retry"
      [] t \in {"empty", "all503", "retry"} /\ o = 200 -> "retry_ok"
      [] OTHER -> "mixed"

\* __init__, but for the backoff arguments
InitClient ==
    /\ max_retries \in 0..MaxRetries
    /\ circuit_breaker_threshold \in 1..MaxThreshold
    /\ cancelled = [c \in Calls |-> "no"]
    /\ sleep_in = NoSleep
    /\ sleep_out = NoSleep
    /\ consecutive_failures = 0
    /\ circuit_open = FALSE
    /\ last_failure_time = 0
    /\ request_count = 0
    /\ error_count = 0
    /\ rate_limit_count = 0
    /\ now = 0
    /\ pc = [c \in Calls |-> "idle"]
    /\ attempt = [c \in Calls |-> 0]
    /\ inner = [c \in Calls |-> 0]
    /\ tmp = [c \in Calls |-> 0]
    /\ after = [c \in Calls |-> "none"]
    /\ netAttempts = [c \in Calls |-> 0]
    /\ trail = [c \in Calls |-> "empty"]
    /\ result = [c \in Calls |-> "none"]
    /\ lazy = [c \in Calls |-> FALSE]
    /\ ec0 = [c \in Calls |-> 0]
    /\ cf0 = [c \in Calls |-> 0]
    /\ failedCalls = 0

\* __init__ with the default backoff arguments
InitHttp ==
    /\ InitClient
    /\ backoff_base_seconds = default_backoff_base
    /\ backoff_cap_seconds = default_backoff_cap

config == <<max_retries, circuit_breaker_threshold, backoff_base_seconds,
           backoff_cap_seconds, track>>
sleepVars == <<sleep_in, sleep_out>>
breaker == <<consecutive_failures, circuit_open, last_failure_time>>
telemetry == <<request_count, error_count, rate_limit_count>>
locals == <<attempt, inner, tmp, after>>
history == <<netAttempts, trail, result, lazy, ec0, cf0, failedCalls>>

Goto(c, l) == pc' = [pc EXCEPT ![c] = l]

\* The clock.
Tick ==
    /\ \E d \in TickSteps :
        /\ now + d <= MaxNow
        /\ now' = now + d
    /\ UNCHANGED <<cacheVars, smartVars, callerVars, sleepVars, cancelled, config, breaker, telemetry, pc, locals, history>>

\* An open breaker that does not block: the call goes on to count itself.
BreakerCheckNoBlock(c) ==
    /\ pc[c] = "idle"
    /\ request_count < MaxRequests
    /\ circuit_open' = IF circuit_open /\ ResetElapsed(now, last_failure_time)
                         THEN FALSE ELSE circuit_open
    /\ Goto(c, IF circuit_open /\ ResetElapsed(now, last_failure_time)
               THEN "reset" ELSE "count_ld")
    /\ lazy' = [lazy EXCEPT ![c] =
                  track /\ circuit_open /\ ResetElapsed(now, last_failure_time)]
    /\ UNCHANGED <<cacheVars, smartVars, callerVars, sleepVars, cancelled, config, consecutive_failures, last_failure_time, telemetry,
                   now, locals, netAttempts, trail, result, ec0, cf0, failedCalls>>

\* A rejection that counts as a failure: it stamps last_failure_time.
BreakerCheckRestamps(c) ==
    /\ pc[c] = "idle"
    /\ request_count < MaxRequests
    /\ IF ~circuit_open
         THEN /\ Goto(c, "count_ld")
              /\ UNCHANGED <<circuit_open, result, lazy, last_failure_time>>
         ELSE IF ResetElapsed(now, last_failure_time)
                THEN /\ circuit_open' = FALSE
                     /\ Goto(c, "reset")
                     /\ lazy' = [lazy EXCEPT ![c] = track]
                     /\ UNCHANGED <<result, last_failure_time>>
                ELSE /\ Goto(c, "done")
                     /\ result' = [result EXCEPT ![c] = "blocked"]
                     /\ last_failure_time' = now
                     /\ UNCHANGED <<circuit_open, lazy>>
    /\ UNCHANGED <<cacheVars, smartVars, callerVars, sleepVars, cancelled, config, consecutive_failures, telemetry,
                   now, locals, netAttempts, trail, ec0, cf0, failedCalls>>

\* get, line 128: if self._is_circuit_open(): raise Exception("Circuit breaker is open ...")
\* _is_circuit_open, lines 69-79, up to and including the write of circuit_open.
BreakerCheck(c) ==
    /\ pc[c] = "idle"
    /\ request_count < MaxRequests
    /\ IF ~circuit_open
         THEN /\ Goto(c, "count_ld")
              /\ UNCHANGED <<circuit_open, result, lazy>>
         ELSE IF ResetElapsed(now, last_failure_time)
                THEN /\ circuit_open' = FALSE
                     /\ Goto(c, "reset")
                     /\ lazy' = [lazy EXCEPT ![c] = track]
                     /\ UNCHANGED result
                ELSE /\ Goto(c, "done")
                     /\ result' = [result EXCEPT ![c] = "blocked"]
                     /\ UNCHANGED <<circuit_open, lazy>>
    /\ UNCHANGED <<cacheVars, smartVars, callerVars, sleepVars, cancelled, config, consecutive_failures, last_failure_time, telemetry,
                   now, locals, netAttempts, trail, ec0, cf0, failedCalls>>

\* _is_circuit_open, line 75: self.consecutive_failures = 0
BreakerResetMissing(c) ==
    /\ pc[c] = "reset"
    /\ Goto(c, "count_ld")
    /\ UNCHANGED <<cacheVars, smartVars, callerVars, sleepVars, cancelled, config, breaker, telemetry, now, locals, history>>
BreakerReset(c) ==
    /\ pc[c] = "reset"
    /\ consecutive_failures' = 0
    /\ failedCalls' = 0
    /\ Goto(c, "count_ld")
    /\ UNCHANGED <<cacheVars, smartVars, callerVars, sleepVars, cancelled, config, circuit_open, last_failure_time, telemetry, now, locals,
                   netAttempts, trail, result, lazy, ec0, cf0>>

\* get, line 132: self.request_count += 1 (the load)
CountLoad(c) ==
    /\ pc[c] = "count_ld"
    /\ tmp' = [tmp EXCEPT ![c] = request_count]
    /\ ec0' = [ec0 EXCEPT ![c] = IF track THEN error_count ELSE @]
    /\ cf0' = [cf0 EXCEPT ![c] = IF track THEN consecutive_failures ELSE @]
    /\ Goto(c, "count_st")
    /\ UNCHANGED <<cacheVars, smartVars, callerVars, sleepVars, cancelled, config, breaker, telemetry, now, attempt, inner, after,
                   netAttempts, trail, result, lazy, failedCalls>>

\* get, line 132 (the store) and line 136: attempt = 0
CountStore(c) ==
    /\ pc[c] = "count_st"
    /\ request_count' = tmp[c] + 1
    /\ tmp' = [tmp EXCEPT ![c] = 0]
    /\ attempt' = [attempt EXCEPT ![c] = 0]
    /\ inner' = [inner EXCEPT ![c] = 0]
    /\ Goto(c, "send")
    /\ UNCHANGED <<cacheVars, smartVars, callerVars, sleepVars, cancelled, config, breaker, error_count, rate_limit_count, now, after, history>>

\* except clauses, lines 174-181 and 183-190: with attempts left, sleep and
\* continue; otherwise _record_failure and re-raise.  The value is the place
\* get goes to and the place _record_failure returns to.
Handler(att, mr) ==
    IF att < mr THEN <<"sleep", "none">> ELSE <<"rf_cf_ld", "raise">>

\* get, lines 146-172, and the except clauses: what the loop does with the
\* outcome o of session.get on loop index att.  raise_for_status raises
\* requests.HTTPError, a RequestException, for a status of 400 and above, and
\* it is called inside the try block: the except clause of line 183 catches it.
Dispatch(o, att, mr) ==
    IF o = NetErr THEN Handler(att, mr)                      \* line 174
    ELSE IF IsSuccess(o) THEN <<"rs_cf", "none">>            \* line 148
    ELSE IF o = 429 THEN <<"rl_ld", "none">>                 \* line 153
    ELSE IF IsServerError(o) THEN
         IF att < mr THEN <<"sleep", "none">>                \* lines 160-162
         ELSE Handler(att, mr)                               \* line 171 raises
    ELSE IF IsClientError(o) THEN <<"rf_cf_ld", "handler">>  \* lines 166-167
    ELSE <<"done", "none">>                                  \* lines 171-172

\* get, lines 139-172: self.session.get(...) and the branch taken on its
\* outcome.  One step is one request to the upstream; the mounted Retry
\* resends within the same session.get.
Send(c) ==
    /\ pc[c] = "send"
    /\ \E o \in Outcomes :
        /\ netAttempts' = [netAttempts EXCEPT ![c] = IF track THEN @ + 1 ELSE @]
        /\ trail' = [trail EXCEPT ![c] = IF track THEN TrailNext(@, o) ELSE @]
        /\ IF AdapterRetries(o, inner[c], max_retries)
             THEN /\ inner' = [inner EXCEPT ![c] = @ + 1]
                  /\ UNCHANGED <<pc, after, result>>
             ELSE LET d == Dispatch(o, attempt[c], max_retries) IN
                  /\ inner' = [inner EXCEPT ![c] = 0]
                  /\ Goto(c, d[1])
                  /\ after' = [after EXCEPT ![c] = d[2]]
                  /\ result' = [result EXCEPT ![c] =
                                   IF d[1] = "done" THEN "returned_raw" ELSE @]
    /\ UNCHANGED <<cacheVars, smartVars, callerVars, sleepVars, cancelled, config, breaker, telemetry, now, attempt, tmp, lazy, ec0,
                   cf0, failedCalls>>

\* get, line 153: self.rate_limit_count += 1 (the load)
RateLimitLoad(c) ==
    /\ pc[c] = "rl_ld"
    /\ tmp' = [tmp EXCEPT ![c] = rate_limit_count]
    /\ Goto(c, "rl_st")
    /\ UNCHANGED <<cacheVars, smartVars, callerVars, sleepVars, cancelled, config, breaker, telemetry, now, attempt, inner, after, history>>

\* get, line 153 (the store), lines 154-156, and on the last attempt the fall
\* through to line 165: 429 is a client error.
RateLimitStore(c) ==
    /\ pc[c] = "rl_st"
    /\ rate_limit_count' = tmp[c] + 1
    /\ tmp' = [tmp EXCEPT ![c] = 0]
    /\ IF attempt[c] < max_retries
         THEN /\ Goto(c, "sleep")
              /\ UNCHANGED after
         ELSE /\ Goto(c, "rf_cf_ld")
              /\ after' = [after EXCEPT ![c] = "handler"]
    /\ UNCHANGED <<cacheVars, smartVars, callerVars, sleepVars, cancelled, config, breaker, request_count, error_count, now, attempt, inner,
                   history>>

\* _sleep_with_backoff followed by continue: the next iteration of the loop.
\* SleepNoAdvance: the loop tries the same index again.
SleepNoAdvance(c) ==
    /\ pc[c] = "sleep"
    /\ Goto(c, "send")
    /\ UNCHANGED <<cacheVars, smartVars, callerVars, sleepVars, cancelled, config, breaker, telemetry, now,
                   locals, history>>
Sleep(c) ==
    /\ pc[c] = "sleep"
    /\ attempt' = [attempt EXCEPT ![c] = @ + 1]
    /\ Goto(c, "send")
    /\ UNCHANGED <<cacheVars, smartVars, callerVars, sleepVars, cancelled, config, breaker, telemetry, now, inner, tmp, after, history>>

\* _record_failure, line 83: self.consecutive_failures += 1 (the load)
FailureLoad(c) ==
    /\ pc[c] = "rf_cf_ld"
    /\ tmp' = [tmp EXCEPT ![c] = consecutive_failures]
    /\ Goto(c, "rf_cf_st")
    /\ UNCHANGED <<cacheVars, smartVars, callerVars, sleepVars, cancelled, config, breaker, telemetry, now, attempt, inner, after, history>>

\* _record_failure, line 83 (the store)
FailureStore(c) ==
    /\ pc[c] = "rf_cf_st"
    /\ consecutive_failures' = tmp[c] + 1
    /\ tmp' = [tmp EXCEPT ![c] = 0]
    /\ Goto(c, "rf_ec_ld")
    /\ UNCHANGED <<cacheVars, smartVars, callerVars, sleepVars, cancelled, config, circuit_open, last_failure_time, telemetry, now, attempt,
                   inner, after, history>>

\* _record_failure, line 84: self.error_count += 1 (the load)
ErrorLoad(c) ==
    /\ pc[c] = "rf_ec_ld"
    /\ tmp' = [tmp EXCEPT ![c] = error_count]
    /\ Goto(c, "rf_ec_st")
    /\ UNCHANGED <<cacheVars, smartVars, callerVars, sleepVars, cancelled, config, breaker, telemetry, now, attempt, inner, after, history>>

\* _record_failure, line 84 (the store)
ErrorStore(c) ==
    /\ pc[c] = "rf_ec_st"
    /\ error_count' = tmp[c] + 1
    /\ tmp' = [tmp EXCEPT ![c] = 0]
    /\ Goto(c, "rf_time")
    /\ UNCHANGED <<cacheVars, smartVars, callerVars, sleepVars, cancelled, config, breaker, request_count, rate_limit_count, now, attempt,
                   inner, after, history>>

\* _record_failure, line 85: self.last_failure_time = time.time()
FailureTime(c) ==
    /\ pc[c] = "rf_time"
    /\ last_failure_time' = now
    /\ Goto(c, "rf_check")
    /\ UNCHANGED <<cacheVars, smartVars, callerVars, sleepVars, cancelled, config, consecutive_failures, circuit_open, telemetry, now, locals,
                   history>>

\* _record_failure, lines 87-88, and the return to the caller: after line 166
\* raise_for_status raises into the except clause of line 183; after lines 180
\* and 189 the exception is re-raised out of get.
FailureCheck(c) ==
    /\ pc[c] = "rf_check"
    /\ circuit_open' = IF ThresholdReached(consecutive_failures, circuit_breaker_threshold)
                         THEN TRUE ELSE circuit_open
    /\ IF after[c] = "handler"
         THEN LET h == Handler(attempt[c], max_retries) IN
              /\ Goto(c, h[1])
              /\ after' = [after EXCEPT ![c] = h[2]]
              /\ UNCHANGED <<result, failedCalls>>
         ELSE /\ Goto(c, "done")
              /\ after' = [after EXCEPT ![c] = "none"]
              /\ result' = [result EXCEPT ![c] = "raised"]
              /\ failedCalls' = IF track THEN failedCalls + 1 ELSE failedCalls
    /\ UNCHANGED <<cacheVars, smartVars, callerVars, sleepVars, cancelled, config, consecutive_failures, last_failure_time, telemetry, now,
                   attempt, inner, tmp, netAttempts, trail, lazy, ec0, cf0>>

\* _record_success, line 93: self.consecutive_failures = 0
SuccessResetMissing(c) ==
    /\ pc[c] = "rs_cf"
    /\ Goto(c, "rs_open")
    /\ UNCHANGED <<cacheVars, smartVars, callerVars, sleepVars, cancelled, config, breaker, telemetry, now, locals, history>>
SuccessReset(c) ==
    /\ pc[c] = "rs_cf"
    /\ consecutive_failures' = 0
    /\ failedCalls' = 0
    /\ Goto(c, "rs_open")
    /\ UNCHANGED <<cacheVars, smartVars, callerVars, sleepVars, cancelled, config, circuit_open, last_failure_time, telemetry, now, locals,
                   netAttempts, trail, result, lazy, ec0, cf0>>

\* _record_success, lines 94-95, and get, line 149: return response
SuccessClose(c) ==
    /\ pc[c] = "rs_open"
    /\ circuit_open' = IF circuit_open THEN FALSE ELSE circuit_open
    /\ result' = [result EXCEPT ![c] = "returned"]
    /\ Goto(c, "done")
    /\ UNCHANGED <<cacheVars, smartVars, callerVars, sleepVars, cancelled, config, consecutive_failures, last_failure_time, telemetry, now,
                   locals, netAttempts, trail, lazy, ec0, cf0, failedCalls>>

\* The call is over and its caller calls again.
Finish(c) ==
    /\ pc[c] = "done"
    /\ Goto(c, "idle")
    /\ attempt' = [attempt EXCEPT ![c] = 0]
    /\ inner' = [inner EXCEPT ![c] = 0]
    /\ tmp' = [tmp EXCEPT ![c] = 0]
    /\ after' = [after EXCEPT ![c] = "none"]
    /\ netAttempts' = [netAttempts EXCEPT ![c] = 0]
    /\ trail' = [trail EXCEPT ![c] = "empty"]
    /\ result' = [result EXCEPT ![c] = "none"]
    /\ lazy' = [lazy EXCEPT ![c] = FALSE]
    /\ ec0' = [ec0 EXCEPT ![c] = 0]
    /\ cf0' = [cf0 EXCEPT ![c] = 0]
    /\ cancelled' = [cancelled EXCEPT ![c] = "no"]
    /\ UNCHANGED <<cacheVars, smartVars, callerVars, sleepVars, config, breaker, telemetry, now, failedCalls>>

\* get_async, lines 205-209: the coroutine awaiting run_in_executor is
\* cancelled while the executor thread is running get.  The await raises
\* CancelledError in the caller; the thread is not interrupted and get runs on.
Cancel(c) ==
    /\ pc[c] \notin {"idle", "done"}
    /\ cancelled[c] = "no"
    /\ cancelled' = [cancelled EXCEPT ![c] =
                        IF pc[c] = "sleep" \/ (pc[c] = "send" /\ inner[c] = 0)
                          THEN "boundary" ELSE "during"]
    /\ UNCHANGED <<cacheVars, smartVars, callerVars, sleepVars, config, breaker, telemetry, now, pc,
                   locals, history>>

\* The Retry-After header a 429 response carries, as _sleep_with_backoff sees
\* it: absent (None), the empty string, a text float() rejects (an HTTP date
\* for one), a finite number of half seconds, "nan", or "inf".
Hint(kind, n) == [kind |-> kind, n |-> n]
Hints ==
    {Hint(k, 0) : k \in {"missing", "empty", "unparsable", "nan", "inf"}}
      \cup {Hint("number", n) : n \in -1..(MaxCap + 1)}

Min(a, b) == IF a < b THEN a ELSE b

RECURSIVE Pow2(_)
Pow2(n) == IF n = 0 THEN 1 ELSE 2 * Pow2(n - 1)

\* _sleep_with_backoff, lines 110-116: min(base * 2 ** attempt_index, cap) plus
\* the jitter random.uniform(0, base) drew
exponential(attempt_index, jitter, base, cap) ==
    [branch |-> "exponential", time |-> Min(base * Pow2(attempt_index), cap) + jitter]

\* _sleep_with_backoff: the branch taken and the time slept.  time.sleep is
\* called inside the try block and raises ValueError for a negative or NaN
\* argument, which the except clause of line 107 catches like a failed float().
\* sleep_with_backoff_uncapped: the hint is slept in full.
\* sleep_with_backoff_no_hint: the hint is never used.
sleep_with_backoff_no_hint(attempt_index, hint, jitter, base, cap) ==
    exponential(attempt_index, jitter, base, cap)
sleep_with_backoff_uncapped(attempt_index, hint, jitter, base, cap) ==
    IF hint.kind \in {"missing", "empty", "unparsable", "nan"}
      THEN exponential(attempt_index, jitter, base, cap)
    ELSE IF hint.kind = "inf" THEN [branch |-> "retry_after", time |-> cap]
    ELSE IF hint.n < 0 THEN exponential(attempt_index, jitter, base, cap)
    ELSE [branch |-> "retry_after", time |-> hint.n]
sleep_with_backoff(attempt_index, hint, jitter, base, cap) ==
    IF hint.kind \in {"missing", "empty"}                      \* line 100
      THEN exponential(attempt_index, jitter, base, cap)
    ELSE IF hint.kind = "unparsable"                           \* line 102 raises
      THEN exponential(attempt_index, jitter, base, cap)
    ELSE IF hint.kind = "nan"                                  \* min(nan, cap) is nan;
      THEN exponential(attempt_index, jitter, base, cap)       \* line 105 raises
    ELSE IF hint.kind = "inf"
      THEN [branch |-> "retry_after", time |-> cap]
    ELSE IF Min(hint.n, cap) < 0                               \* line 105 raises
      THEN exponential(attempt_index, jitter, base, cap)
    ELSE [branch |-> "retry_after", time |-> Min(hint.n, cap)]

\* One call of _sleep_with_backoff by get: line 155 after a 429 (with the
\* header of the response), lines 161, 178 and 187 otherwise (without).
SleepWithBackoff(status, attempt_index, hint, jitter) ==
    /\ attempt_index < max_retries
    /\ status # 429 => hint.kind = "missing"
    /\ sleep_in' = [status |-> status, attempt_index |-> attempt_index,
                    hint |-> hint, jitter |-> jitter]
    /\ sleep_out' = sleep_with_backoff(attempt_index, hint, jitter,
                                       backoff_base_seconds, backoff_cap_seconds)
    /\ UNCHANGED <<cacheVars, smartVars, callerVars, cancelled, config, breaker, telemetry, now, pc,
                   locals, history>>

\* One step of get for call c.
Get(c) ==
    \/ BreakerCheck(c)
    \/ BreakerReset(c)
    \/ CountLoad(c)
    \/ CountStore(c)
    \/ Send(c)
    \/ RateLimitLoad(c)
    \/ RateLimitStore(c)
    \/ Sleep(c)
    \/ FailureLoad(c)
    \/ FailureStore(c)
    \/ ErrorLoad(c)
    \/ ErrorStore(c)
    \/ FailureTime(c)
    \/ FailureCheck(c)
    \/ SuccessReset(c)
    \/ SuccessClose(c)


\* --------------------------------------------------------------- InMemoryCache

MaxCacheNow == 4         \* the clock of the cache runs stop here
MaxCacheOps == 4         \* get and set calls on one cache
DefaultTTL == 2          \* default_ttl_seconds the cache is built with
MaxThreadOps == 3        \* get and set calls of the threads using one cache together
MaxThreadNow == 1        \* the clock of a run with several threads stops here

Threads == {1, 2}
SeqThreads == {1}
Keys == {"k1", "k2"}
Values == {"a", "b"}
\* get's result for a miss
None == "None"
\* ttl_seconds omitted (its default, None)
NoTTL == -1
\* ttl_seconds a caller passes to set
TTLArgs == {NoTTL, 0, 1}

\* _is_expired: time.time() > entry.get('expires_at', 0)
IsExpiredGE(entry, t) == t >= entry.expires_at
IsExpired(entry, t) == t > entry.expires_at

\* _cleanup_expired: the keys left after deleting every expired entry
Live(c, t) == {k \in DOMAIN c : ~IsExpired(c[k], t)}

\* set, line 57: ttl = ttl_seconds or self.default_ttl_seconds
EffectiveTTL(ttl_seconds, dflt) ==
    IF ttl_seconds = NoTTL \/ ttl_seconds = 0 THEN dflt ELSE ttl_seconds

\* dict without key k
Without(c, k) == [x \in DOMAIN c \ {k} |-> c[x]]
\* dict with c[k] = e.  WithKeepOld: a stored key keeps its entry (setdefault).
WithKeepOld(c, k, e) == [x \in DOMAIN c \cup {k} |-> IF x \in DOMAIN c THEN c[x] ELSE e]
With(c, k, e) == [x \in DOMAIN c \cup {k} |-> IF x = k THEN e ELSE c[x]]

InitCache ==
    /\ default_ttl_seconds = DefaultTTL
    /\ cache = <<>>
    /\ lock = 0
    /\ hits = 0
    /\ misses = 0
    /\ sets = 0
    /\ evictions = 0
    /\ cpc = [t \in Threads |-> "idle"]
    /\ ckey = [t \in Threads |-> "k1"]
    /\ cvalue = [t \in Threads |-> None]
    /\ cexpires = [t \in Threads |-> 0]
    /\ cttl = [t \in Threads |-> NoTTL]
    /\ ret = [t \in Threads |-> None]
    /\ latest = <<>>
    /\ getCalls = 0
    /\ setCalls = 0

\* Everything of the HTTP client but the clock.
clientVars == <<max_retries, circuit_breaker_threshold, backoff_base_seconds,
                backoff_cap_seconds, cancelled, sleep_in, sleep_out, consecutive_failures,
                circuit_open, last_failure_time, request_count, error_count,
                rate_limit_count, pc, attempt, inner, tmp, after,
                track, netAttempts, trail, result, lazy, ec0, cf0, failedCalls>>

CGoto(t, l) == cpc' = [cpc EXCEPT ![t] = l]

\* The clock, one second at a time.
CacheTick ==
    /\ now < MaxCacheNow
    /\ now' = now + 1
    /\ UNCHANGED <<clientVars, cacheVars, smartVars, callerVars>>

\* A get that removes the requested key's entry alone when it is expired.
GetSweepRequestedOnly(t, k) ==
    /\ cpc[t] = "idle"
    /\ hits + misses + sets < MaxCacheOps
    /\ lock = 0
    /\ lock' = t
    /\ ckey' = [ckey EXCEPT ![t] = k]
    /\ LET gone == IF k \in DOMAIN cache /\ IsExpired(cache[k], now) THEN {k} ELSE {}
       IN  /\ cache' = [x \in DOMAIN cache \ gone |-> cache[x]]
           /\ evictions' = evictions + Cardinality(gone)
    /\ ret' = [ret EXCEPT ![t] = None]
    /\ CGoto(t, "get_lookup")
    /\ UNCHANGED <<now, clientVars, smartVars, callerVars, default_ttl_seconds, hits, misses, sets, cvalue,
                   cexpires, cttl, latest, getCalls, setCalls>>

\* get, lines 44-45: take the lock, then _cleanup_expired
GetSweep(t, k) ==
    /\ cpc[t] = "idle"
    /\ hits + misses + sets < MaxCacheOps
    /\ lock = 0
    /\ lock' = t
    /\ ckey' = [ckey EXCEPT ![t] = k]
    /\ cache' = [x \in Live(cache, now) |-> cache[x]]
    /\ evictions' = evictions + Cardinality(DOMAIN cache \ Live(cache, now))
    /\ ret' = [ret EXCEPT ![t] = None]
    /\ CGoto(t, "get_lookup")
    /\ UNCHANGED <<now, clientVars, smartVars, callerVars, default_ttl_seconds, hits, misses, sets, cvalue,
                   cexpires, cttl, latest, getCalls, setCalls>>

\* A get that returns None without counting the miss.
GetLookupUncounted(t) ==
    /\ cpc[t] = "get_lookup"
    /\ lock = t
    /\ IF ckey[t] \notin DOMAIN cache \/ IsExpired(cache[ckey[t]], now)
         THEN /\ ret' = [ret EXCEPT ![t] = None]
              /\ UNCHANGED <<hits, misses>>
         ELSE /\ hits' = hits + 1
              /\ ret' = [ret EXCEPT ![t] = cache[ckey[t]].value]
              /\ UNCHANGED misses
    /\ lock' = 0
    /\ getCalls' = getCalls + 1
    /\ ckey' = [ckey EXCEPT ![t] = "k1"]
    /\ CGoto(t, "idle")
    /\ UNCHANGED <<now, clientVars, smartVars, callerVars, default_ttl_seconds, cache, sets, evictions,
                   cvalue, cexpires, cttl, latest, setCalls>>

\* get, lines 47-53: the lookup, the second expiry test, the counters; the lock
\* is released on return.
GetLookup(t) ==
    /\ cpc[t] = "get_lookup"
    /\ lock = t
    /\ IF ckey[t] \notin DOMAIN cache \/ IsExpired(cache[ckey[t]], now)
         THEN /\ misses' = misses + 1
              /\ ret' = [ret EXCEPT ![t] = None]
              /\ UNCHANGED hits
         ELSE /\ hits' = hits + 1
              /\ ret' = [ret EXCEPT ![t] = cache[ckey[t]].value]
              /\ UNCHANGED misses
    /\ lock' = 0
    /\ getCalls' = getCalls + 1
    /\ ckey' = [ckey EXCEPT ![t] = "k1"]
    /\ CGoto(t, "idle")
    /\ UNCHANGED <<now, clientVars, smartVars, callerVars, default_ttl_seconds, cache, sets, evictions,
                   cvalue, cexpires, cttl, latest, setCalls>>

\* set, lines 57-58: ttl and expires_at, computed before the lock is taken
SetCompute(t, k, v, ttl_seconds) ==
    /\ cpc[t] = "idle"
    /\ hits + misses + sets < MaxCacheOps
    /\ ckey' = [ckey EXCEPT ![t] = k]
    /\ cvalue' = [cvalue EXCEPT ![t] = v]
    /\ cexpires' = [cexpires EXCEPT ![t] =
                      now + EffectiveTTL(ttl_seconds, default_ttl_seconds)]
    /\ cttl' = [cttl EXCEPT ![t] = ttl_seconds]
    /\ ret' = [ret EXCEPT ![t] = None]
    /\ CGoto(t, "set_store")
    /\ UNCHANGED <<now, clientVars, smartVars, callerVars, default_ttl_seconds, cache, lock, hits, misses,
                   sets, evictions, latest, getCalls, setCalls>>

\* set as it would be if expires_at were kept where another thread's pending
\* set can overwrite it before the entry is stored
SetStoreSharedExpiry(t) ==
    /\ cpc[t] = "set_store"
    /\ lock = 0
    /\ LET others == {u \in Threads \ {t} : cpc[u] = "set_store"}
           shared == IF others = {} THEN cexpires[t]
                     ELSE cexpires[CHOOSE u \in others : TRUE]
       IN  cache' = With(cache, ckey[t], [value |-> cvalue[t],
                                          expires_at |-> shared,
                                          created_at |-> now])
    /\ sets' = sets + 1
    /\ setCalls' = setCalls + 1
    /\ latest' = [k \in DOMAIN latest \cup {ckey[t]} |->
                      IF k = ckey[t]
                        THEN [value |-> cvalue[t], expires_at |-> cexpires[t]]
                        ELSE latest[k]]
    /\ cvalue' = [cvalue EXCEPT ![t] = None]
    /\ cexpires' = [cexpires EXCEPT ![t] = 0]
    /\ cttl' = [cttl EXCEPT ![t] = NoTTL]
    /\ ckey' = [ckey EXCEPT ![t] = "k1"]
    /\ CGoto(t, "idle")
    /\ UNCHANGED <<now, clientVars, smartVars, callerVars, default_ttl_seconds, lock, hits, misses, evictions,
                   ret, getCalls>>

\* set, lines 60-66, under the lock
SetStore(t) ==
    /\ cpc[t] = "set_store"
    /\ lock = 0
    /\ cache' = With(cache, ckey[t], [value |-> cvalue[t],
                                      expires_at |-> cexpires[t],
                                      created_at |-> now])
    /\ sets' = sets + 1
    /\ setCalls' = setCalls + 1
    /\ latest' = [k \in DOMAIN latest \cup {ckey[t]} |->
                      IF k = ckey[t]
                        THEN [value |-> cvalue[t], expires_at |-> cexpires[t]]
                        ELSE latest[k]]
    /\ cvalue' = [cvalue EXCEPT ![t] = None]
    /\ cexpires' = [cexpires EXCEPT ![t] = 0]
    /\ cttl' = [cttl EXCEPT ![t] = NoTTL]
    /\ ckey' = [ckey EXCEPT ![t] = "k1"]
    /\ CGoto(t, "idle")
    /\ UNCHANGED <<now, clientVars, smartVars, callerVars, default_ttl_seconds, lock, hits, misses, evictions,
                   ret, getCalls>>

\* delete, lines 70-74, under the lock
Delete(t, k) ==
    /\ cpc[t] = "idle"
    /\ lock = 0
    /\ cache' = IF k \in DOMAIN cache THEN Without(cache, k) ELSE cache
    /\ latest' = [x \in DOMAIN latest \ {k} |-> latest[x]]
    /\ ret' = [ret EXCEPT ![t] = None]
    /\ UNCHANGED <<now, clientVars, smartVars, callerVars, default_ttl_seconds, lock, hits, misses, sets,
                   evictions, cpc, ckey, cvalue, cexpires, cttl, getCalls, setCalls>>

\* clear, lines 78-79, under the lock
Clear(t) ==
    /\ cpc[t] = "idle"
    /\ lock = 0
    /\ cache' = <<>>
    /\ latest' = <<>>
    /\ ret' = [ret EXCEPT ![t] = None]
    /\ UNCHANGED <<now, clientVars, smartVars, callerVars, default_ttl_seconds, lock, hits, misses, sets,
                   evictions, cpc, ckey, cvalue, cexpires, cttl, getCalls, setCalls>>

\* One step of a cache operation of thread t.
CacheOp(t) ==
    \/ \E k \in Keys : GetSweep(t, k)
    \/ GetLookup(t)
    \/ \E k \in Keys, v \in Values, ttl \in TTLArgs : SetCompute(t, k, v, ttl)
    \/ SetStore(t)
    \/ \E k \in Keys : Delete(t, k)
    \/ Clear(t)


\* ------------------------------------------------------------------ SmartCache

MaxSmartOps == 2         \* get and set calls on one SmartCache
MaxSmartTicks == 2       \* clock steps of a SmartCache run

\* One clock step of a SmartCache run: the shortest default TTL (search_cache)
SmartStep == 900

\* The five caches SmartCache.__init__ builds, with their default TTLs
Attributes == {"player_cache", "stats_cache", "market_cache", "league_cache",
               "search_cache"}
default_ttls ==
    [a \in Attributes |->
        CASE a = "player_cache" -> 1800
          [] a = "stats_cache"  -> 3600
          [] a = "market_cache" -> 7200
          [] a = "league_cache" -> 86400
          [] a = "search_cache" -> 900]

\* The prefixes the accessors pass to _make_key ("leagues" stands for the
\* get_leagues / set_leagues pair, which uses a fixed key)
Prefixes == {"player", "stats", "market", "leagues", "search"}

\* The cache an accessor with this prefix reads and writes.  cache_of_shared:
\* the stats accessors use the players' cache.
cache_of_shared(prefix) ==
    CASE prefix = "player"  -> "player_cache"
      [] prefix = "stats"   -> "player_cache"
      [] prefix = "market"  -> "market_cache"
      [] prefix = "leagues" -> "league_cache"
      [] prefix = "search"  -> "search_cache"
cache_of(prefix) ==
    CASE prefix = "player"  -> "player_cache"
      [] prefix = "stats"   -> "stats_cache"
      [] prefix = "market"  -> "market_cache"
      [] prefix = "leagues" -> "league_cache"
      [] prefix = "search"  -> "search_cache"

\* str(arg) of the raw arguments callers pass, character by character
Str1 == <<"1">>
Str2 == <<"2">>
\* The argument tuples of the accessor with this prefix: a player id; a player
\* id and a season; a position and a league; nothing; a query hash.
ArgsOf(prefix) ==
    CASE prefix = "player"  -> {<<Str1>>, <<Str2>>}
      [] prefix = "stats"   -> {<<Str1, Str2>>}
      [] prefix = "market"  -> {<<Str1, Str2>>}
      [] prefix = "leagues" -> {<<>>}
      [] prefix = "search"  -> {<<Str1>>, <<Str2>>}
\* The data callers store
SmartData == {"d1"}

\* ':'.join(str(arg) for arg in args)
RECURSIVE Join(_)
Join(args) ==
    IF args = <<>> THEN <<>>
    ELSE IF Len(args) = 1 THEN args[1]
    ELSE args[1] \o <<":">> \o Join(Tail(args))

\* _make_key: the md5 hexdigest of f"{prefix}:{joined args}".  The digest is
\* represented by the text it digests (two keys are equal exactly when their
\* key_data are equal).
make_key(prefix, args) == <<prefix, ":">> \o Join(args)

\* The key an accessor uses: get_leagues and set_leagues use "leagues_all".
KeyOf(prefix, args) ==
    IF prefix = "leagues" THEN <<"leagues_all">> ELSE make_key(prefix, args)

\* InMemoryCache.__init__
NewCache(ttl) ==
    [default_ttl_seconds |-> ttl, entries |-> <<>>,
     hits |-> 0, misses |-> 0, sets |-> 0, evictions |-> 0]

\* InMemoryCache.get on cache object c at time t, as one step: the object
\* afterwards, and the value returned.
CacheGet(c, k, t) ==
    LET live == Live(c.entries, t)
        swept == [c EXCEPT !.entries = [x \in live |-> c.entries[x]],
                           !.evictions = @ + Cardinality(DOMAIN c.entries \ live)]
    IN  IF k \notin DOMAIN swept.entries \/ IsExpired(swept.entries[k], t)
          THEN [obj |-> [swept EXCEPT !.misses = @ + 1], value |-> None]
          ELSE [obj |-> [swept EXCEPT !.hits = @ + 1],
                value |-> swept.entries[k].value]

\* InMemoryCache.set, as one step
CacheSet(c, k, v, ttl_seconds, t) ==
    [c EXCEPT !.entries = With(@, k,
                  [value |-> v,
                   expires_at |-> t + EffectiveTTL(ttl_seconds, c.default_ttl_seconds),
                   created_at |-> t]),
              !.sets = @ + 1]

\* InMemoryCache.delete
CacheDelete(c, k) ==
    [c EXCEPT !.entries = IF k \in DOMAIN @ THEN Without(@, k) ELSE @]

\* InMemoryCache.clear
CacheClear(c) == [c EXCEPT !.entries = <<>>]

\* get_stats, line 85: hits / max(total_requests, 1), as numerator and
\* denominator
hit_rate(h, total_requests) ==
    <<h, IF total_requests > 1 THEN total_requests ELSE 1>>

\* InMemoryCache.get_stats
get_stats(c) ==
    [hits |-> c.hits, misses |-> c.misses, sets |-> c.sets,
     evictions |-> c.evictions,
     hit_rate |-> hit_rate(c.hits, c.hits + c.misses),
     total_entries |-> Cardinality(DOMAIN c.entries),
     total_requests |-> c.hits + c.misses]

InitSmart ==
    /\ smart = [a \in Attributes |-> NewCache(default_ttls[a])]
    /\ sret = None

SmartOps ==
    LET calls(a) == smart[a].hits + smart[a].misses + smart[a].sets
    IN  calls("player_cache") + calls("stats_cache") + calls("market_cache")
          + calls("league_cache") + calls("search_cache")

\* The clock of a SmartCache run.
SmartTick ==
    /\ now < MaxSmartTicks * SmartStep
    /\ now' = now + SmartStep
    /\ UNCHANGED <<clientVars, cacheVars, smartVars, callerVars>>

\* get_player, get_player_stats, get_market_data, get_leagues, get_search_results
SmartGet(prefix, args) ==
    /\ SmartOps < MaxSmartOps
    /\ LET a == cache_of(prefix)
           r == CacheGet(smart[a], KeyOf(prefix, args), now)
       IN  /\ smart' = [smart EXCEPT ![a] = r.obj]
           /\ sret' = r.value
    /\ UNCHANGED <<now, clientVars, cacheVars, callerVars>>

\* set_player, set_player_stats, set_market_data, set_leagues, set_search_results
SmartSet(prefix, args, data) ==
    /\ SmartOps < MaxSmartOps
    /\ LET a == cache_of(prefix)
       IN  smart' = [smart EXCEPT ![a] =
                        CacheSet(@, KeyOf(prefix, args), data, NoTTL, now)]
    /\ sret' = None
    /\ UNCHANGED <<now, clientVars, cacheVars, callerVars>>

\* invalidate_player, lines 148-152.  invalidate_player_cascade: the stats of
\* the player are dropped too (the whole stats cache is cleared).
invalidate_player_cascade(args) ==
    /\ smart' = [smart EXCEPT !["player_cache"] =
                    CacheDelete(@, make_key("player", args)),
                               !["stats_cache"] = CacheClear(@)]
    /\ UNCHANGED <<now, clientVars, cacheVars, callerVars, sret>>
invalidate_player(args) ==
    /\ smart' = [smart EXCEPT !["player_cache"] =
                    CacheDelete(@, make_key("player", args))]
    /\ UNCHANGED <<now, clientVars, cacheVars, callerVars, sret>>

\* <attribute>.delete(key), called on one of the caches of the SmartCache
AttributeDelete(a, k) ==
    /\ smart' = [smart EXCEPT ![a] = CacheDelete(@, k)]
    /\ UNCHANGED <<now, clientVars, cacheVars, callerVars, sret>>

\* <attribute>.clear(), called on one of the caches of the SmartCache
AttributeClear(a) ==
    /\ smart' = [smart EXCEPT ![a] = CacheClear(@)]
    /\ UNCHANGED <<now, clientVars, cacheVars, callerVars, sret>>

SmartCall ==
    \/ \E p \in Prefixes : \E args \in ArgsOf(p) : SmartGet(p, args)
    \/ \E p \in Prefixes : \E args \in ArgsOf(p) : \E d \in SmartData : SmartSet(p, args, d)
    \/ \E args \in ArgsOf("player") : invalidate_player(args)
    \/ \E a \in Attributes : \E k \in DOMAIN smart[a].entries : AttributeDelete(a, k)
    \/ \E a \in Attributes : smart[a].entries # <<>> /\ AttributeClear(a)

\* ------------------------------------------- callers of the client and the cache

MaxWarmOps == 3          \* get and set calls on the SmartCache in a run with callers

\* What the player cache holds: the enriched profile made from a 2xx response,
\* or _get_mock_player_data(player_id)
RealProfile == "real"
MockProfile == "mock"

\* The callers of get_player_complete_profile: a request handler (shortlist
\* service and others), warm_popular_caches
Callers == {"service", "warm"}

InitCaller ==
    /\ caller = "none"
    /\ cpos = "idle"
    /\ pid = <<Str1>>
    /\ profile = "none"

\* get_player_complete_profile, lines 41-43: the cache probe; a hit is returned,
\* a miss goes on to get_async (line 51)
ProfileProbe(who, args) ==
    /\ cpos = "idle"
    /\ caller = "none"
    /\ SmartOps < MaxWarmOps
    /\ \A c \in SeqCalls : pc[c] = "idle"
    /\ request_count < MaxRequests
    /\ LET r == CacheGet(smart["player_cache"], make_key("player", args), now)
       IN  /\ smart' = [smart EXCEPT !["player_cache"] = r.obj]
           /\ sret' = r.value
           /\ IF r.value # None
                THEN cpos' = "ret" /\ profile' = r.value
                ELSE cpos' = "await" /\ profile' = "none"
    /\ caller' = who
    /\ pid' = args
    /\ UNCHANGED <<now, clientVars, cacheVars>>

\* get_player_complete_profile, lines 51-66, once get_async has ended: a 2xx
\* response is parsed, enriched, stored with set_player and returned; an
\* exception (the client raised, or the breaker was open) and a response
\* without a body (304: response.json() raises) end in the except clause,
\* which returns the mock profile.
ProfileFetched(c) ==
    /\ cpos = "await"
    /\ pc[c] = "done"
    /\ IF result[c] = "returned"
         THEN /\ smart' = [smart EXCEPT !["player_cache"] =
                             CacheSet(@, make_key("player", pid), RealProfile, NoTTL, now)]
              /\ profile' = RealProfile
         ELSE /\ profile' = MockProfile
              /\ UNCHANGED smart
    /\ cpos' = "ret"
    /\ UNCHANGED <<now, clientVars, cacheVars, sret, caller, pid>>

\* The call returns to its caller.  A request handler uses the profile;
\* warm_popular_caches, lines 222-223, stores what it was given with set_player.
ProfileReturn ==
    /\ cpos = "ret"
    /\ smart' = IF caller = "warm"
                  THEN [smart EXCEPT !["player_cache"] =
                           CacheSet(@, make_key("player", pid), profile, NoTTL, now)]
                  ELSE smart
    /\ caller' = "none"
    /\ cpos' = "idle"
    /\ pid' = <<Str1>>
    /\ profile' = "none"
    /\ UNCHANGED <<now, clientVars, cacheVars, sret>>

\* The client call made by get_player_complete_profile, through get_async.
ClientStep(c) ==
    \/ cpos = "await" /\ Get(c)
    \/ cpos # "await" /\ Finish(c)

\* One caller using get: its calls follow one another.
Init == InitHttp /\ InitCache /\ InitSmart /\ InitCaller /\ track = TRUE
Next == Tick \/ \E c \in SeqCalls : (Get(c) \/ Finish(c))
Spec == Init /\ [][Next]_vars

\* Calls made with get_async: each is one get on an executor thread, and the
\* threads interleave.
InitAsync ==
    /\ InitHttp
    /\ InitCache
    /\ InitSmart
    /\ InitCaller
    /\ max_retries <= AsyncRetries
    /\ circuit_breaker_threshold \in AsyncThresholds
    /\ track = FALSE
NextAsync == Tick \/ \E c \in Calls : Get(c)
SpecAsync == InitAsync /\ [][NextAsync]_vars

\* get_async, lines 205-209: run_in_executor hands get to a worker thread of the
\* loop's default executor and the coroutine awaits the future, so the worker of
\* call c takes its steps whatever the other calls are doing.
\* WorkerOnLoop: get is called by the coroutine itself, on the loop's only
\* thread, which runs no other coroutine until get has returned.
WorkerOnLoop(c) ==
    /\ \A d \in Calls \ {c} : pc[d] \in {"idle", "done"}
    /\ Get(c)
Worker(c) == Get(c)

\* Calls made with get_async on one event loop, on a client that retries and
\* whose breaker opens at the first failure.
InitLoop ==
    /\ InitAsync
    /\ max_retries = AsyncRetries
    /\ circuit_breaker_threshold = 1
NextLoop == Tick \/ \E c \in Calls : Worker(c)
SpecLoop == InitLoop /\ [][NextLoop]_vars

\* One caller using get, whose thread keeps running: a network attempt ends
\* within its timeout and a sleep ends, so a call that can take a step does.
InitTerm == InitHttp /\ InitCache /\ InitSmart /\ InitCaller /\ track = FALSE
SpecTerm == InitTerm /\ [][Next]_vars /\ WF_vars(\E c \in SeqCalls : Get(c))

\* The sleeps of a client built with any backoff arguments.
InitBackoff ==
    /\ InitClient
    /\ circuit_breaker_threshold = 1
    /\ backoff_base_seconds \in 1..MaxBase
    /\ backoff_cap_seconds \in 1..MaxCap
    /\ track = FALSE
    /\ InitCache
    /\ InitSmart
    /\ InitCaller
NextBackoff ==
    \E status \in {429, 503, 404, NetErr} : \E i \in 0..MaxRetries : \E h \in Hints :
        \E j \in 0..backoff_base_seconds : SleepWithBackoff(status, i, h, j)
SpecBackoff == InitBackoff /\ [][NextBackoff]_vars

\* One get_async call at a time, which its caller may cancel.
NextCancel == Tick \/ \E c \in SeqCalls : (Get(c) \/ Finish(c) \/ Cancel(c))
SpecCancel == InitAsync /\ [][NextCancel]_vars

\* Callers of get_player_complete_profile, one call at a time, on a client whose
\* breaker opens at the first failure.
InitWarm ==
    /\ InitAsync
    /\ circuit_breaker_threshold = 1
NextWarm ==
    \/ Tick
    \/ \E who \in Callers : \E args \in ArgsOf("player") : ProfileProbe(who, args)
    \/ \E c \in SeqCalls : ClientStep(c)
    \/ \E c \in SeqCalls : ProfileFetched(c)
    \/ ProfileReturn
SpecWarm == InitWarm /\ [][NextWarm]_vars

\* A client nobody calls, beside the cache.
InitCacheRun ==
    /\ InitHttp
    /\ max_retries = 0
    /\ circuit_breaker_threshold = 1
    /\ track = FALSE
    /\ InitCache
    /\ InitSmart
    /\ InitCaller
\* One thread using the cache.
NextCache == CacheTick \/ \E t \in SeqThreads : CacheOp(t)
SpecCache == InitCacheRun /\ [][NextCache]_vars

\* Several threads using the cache: the calls made so far, finished or not
Started == getCalls + setCalls + Cardinality({t \in Threads : cpc[t] # "idle"})

\* The clock of a run with several threads.
ThreadTick ==
    /\ now < MaxThreadNow
    /\ now' = now + 1
    /\ UNCHANGED <<clientVars, cacheVars, smartVars, callerVars>>

NextCacheThreads ==
    \/ ThreadTick
    \/ \E t \in Threads : (cpc[t] = "idle" => Started < MaxThreadOps) /\ CacheOp(t)
SpecCacheThreads == InitCacheRun /\ [][NextCacheThreads]_vars

\* One caller using the SmartCache.
NextSmart == SmartTick \/ SmartCall
SpecSmart == InitCacheRun /\ [][NextSmart]_vars

\* The position and league strings callers pass to get_market_data and
\* set_market_data: any text, here over two characters, one of them ':'
MaxStrLen == 2           \* longest position or league string
Chars == {"1", ":"}
Strings == UNION {[1..n -> Chars] : n \in 0..MaxStrLen}
MarketArgs == {<<position, league>> : position \in Strings, league \in Strings}

\* One caller using the market accessors of the SmartCache.
NextMarket ==
    \/ SmartTick
    \/ \E args \in MarketArgs : SmartGet("market", args)
    \/ \E args \in MarketArgs : \E d \in SmartData : SmartSet("market", args, d)
SpecMarket == InitCacheRun /\ [][NextMarket]_vars

\* ------------------------------------------------------------------ claims

\* Call c takes a step out of "idle": its breaker check.
Starts(c) == pc[c] = "idle" /\ pc'[c] # "idle"

\* Call c sends one request to the upstream.
Sends(c) == pc[c] = "send" /\ (pc'[c] # "send" \/ inner'[c] # inner[c])

\* C1: a call the upstream answers with a 4xx other than 429 (here 404, and
\* nothing else) makes exactly one network attempt, and ends by raising.
C1_FatalNeverRetried ==
    \A c \in SeqCalls :
        trail[c] = "fatal" =>
            /\ netAttempts[c] = 1
            /\ (pc[c] = "done" => result[c] = "raised")

\* C2: once consecutive_failures has reached circuit_breaker_threshold, a get
\* call whose breaker check comes no later than circuit_reset_timeout after the
\* last failure ends at once, blocked, having made no network attempt.
C2_BreakerOpens ==
    [][\A c \in SeqCalls :
        (/\ Starts(c)
         /\ consecutive_failures >= circuit_breaker_threshold
         /\ now - last_failure_time <= circuit_reset_timeout)
        => (/\ pc'[c] = "done"
            /\ result'[c] = "blocked"
            /\ netAttempts'[c] = 0
            /\ request_count' = request_count)]_vars

\* C2, witness: a call was blocked with the counter at the threshold.
C2_Witness ==
    \E c \in SeqCalls :
        /\ pc[c] = "done"
        /\ result[c] = "blocked"
        /\ consecutive_failures >= circuit_breaker_threshold
        /\ netAttempts[c] = 0

\* C3: between calls, while fewer than circuit_breaker_threshold calls have
\* failed since the breaker was last closed with its counter at 0, the breaker
\* is closed.
C3_NoEarlyOpen ==
    \A c \in SeqCalls :
        (pc[c] = "idle" /\ failedCalls < circuit_breaker_threshold) => ~circuit_open

\* C4: a call that passed the breaker and raised has increased error_count and
\* consecutive_failures by exactly 1 each since it passed.
C4_OneFailurePerRaise ==
    \A c \in SeqCalls :
        (pc[c] = "done" /\ result[c] = "raised") =>
            /\ error_count = ec0[c] + 1
            /\ consecutive_failures = cf0[c] + 1

\* C5: a call the upstream answers with 503 every time makes at most
\* max_retries + 1 attempts against the upstream, and ends by raising after
\* exactly max_retries + 1.
C5_RetryCeiling ==
    \A c \in SeqCalls :
        trail[c] = "all503" =>
            /\ netAttempts[c] <= max_retries + 1
            /\ (pc[c] = "done" =>
                    result[c] = "raised" /\ netAttempts[c] = max_retries + 1)

\* The retryable failures call c has had from the upstream.
RetryableFailures(c) == netAttempts[c] - (IF trail[c] = "retry_ok" THEN 1 ELSE 0)

\* C6: a call whose attempts so far are j <= max_retries retryable failures,
\* followed or not yet by a 2xx, has not given up and has counted no error;
\* once the 2xx has come it makes no further attempt, and it ends returning
\* the 2xx after j + 1 attempts with consecutive_failures at 0.
C6_RetryThenSuccess ==
    \A c \in SeqCalls :
        (/\ trail[c] \in {"all503", "retry", "retry_ok"}
         /\ RetryableFailures(c) <= max_retries)
        => (/\ result[c] \in {"none", "returned"}
            /\ error_count = ec0[c]
            /\ (trail[c] = "retry_ok" => pc[c] \in {"rs_cf", "rs_open", "done"})
            /\ (pc[c] = "done" =>
                    /\ trail[c] = "retry_ok"
                    /\ result[c] = "returned"
                    /\ netAttempts[c] = RetryableFailures(c) + 1
                    /\ consecutive_failures = 0))

\* C6, witness: max_retries = 2, two retryable failures, then 200: returned
\* after 3 attempts with no error counted.
C6_Witness ==
    \E c \in SeqCalls :
        /\ max_retries = 2
        /\ pc[c] = "done"
        /\ trail[c] = "retry_ok"
        /\ result[c] = "returned"
        /\ netAttempts[c] = 3
        /\ error_count = 0

\* C7: a call whose breaker check finds the breaker open more than
\* circuit_reset_timeout after the last failure is not blocked; when it is
\* about to make its first network attempt the breaker is closed and
\* consecutive_failures is 0.
C7_LazyReset ==
    [][\A c \in SeqCalls :
        /\ (/\ Starts(c)
            /\ circuit_open
            /\ now - last_failure_time > circuit_reset_timeout)
           => (lazy'[c] /\ result'[c] = "none" /\ pc'[c] # "done")
        /\ lazy'[c] => result'[c] # "blocked"
        /\ (lazy'[c] /\ pc'[c] = "send" /\ netAttempts'[c] = 0)
           => (~circuit_open' /\ consecutive_failures' = 0)]_vars

\* C7, witness: a call let through by the lazy reset has made its attempts and
\* failed.
C7_Witness ==
    \E c \in SeqCalls :
        /\ lazy[c]
        /\ pc[c] = "done"
        /\ result[c] = "raised"
        /\ netAttempts[c] > 0

\* The breaker check of some call closes the breaker, more than
\* circuit_reset_timeout after the last failure.
ClosedByLazyReset ==
    \E c \in Calls :
        /\ pc[c] = "idle"
        /\ pc'[c] = "reset"
        /\ now - last_failure_time > circuit_reset_timeout

\* _record_success of a call that has had a 2xx closes the breaker.
ClosedBySuccess ==
    \E c \in Calls :
        /\ pc[c] = "rs_open"
        /\ pc'[c] = "done"
        /\ result'[c] = "returned"

\* C8: circuit_open changes from true to false only in the breaker check of a
\* call that starts more than circuit_reset_timeout after the last failure.
C8_ClosesOnlyLazily ==
    [][(circuit_open /\ ~circuit_open') => ClosedByLazyReset]_vars

\* C8, for calls in the first iteration of their loop only (such a call has
\* recorded no failure of its own, so another call opened the breaker): they
\* too close an open breaker, by recording a success.
C8_ClosesOnlyLazily_OtherCall ==
    [][(circuit_open /\ ~circuit_open')
        => (ClosedByLazyReset \/ \E c \in Calls : pc[c] = "rs_open" /\ attempt[c] > 0)]_vars

\* C8, amended: circuit_open changes from true to false only in the breaker
\* check of a call that starts more than circuit_reset_timeout after the last
\* failure, or when a call that had passed the breaker check records the
\* success of a 2xx response.
C8_ClosesLazilyOrOnSuccess ==
    [][(circuit_open /\ ~circuit_open') => (ClosedByLazyReset \/ ClosedBySuccess)]_vars

\* C8, witness: a call has had its 2xx and is about to record the success
\* while the breaker is open and its timeout has not passed.
C8_Witness ==
    \E c \in Calls :
        /\ pc[c] = "rs_open"
        /\ circuit_open
        /\ now - last_failure_time <= circuit_reset_timeout

\* C9: no request reaches the upstream while the breaker is open and
\* circuit_reset_timeout has not passed since the last failure.
C9_NoAttemptWhileOpen ==
    [][\A c \in Calls :
        Sends(c) =>
            ~(circuit_open /\ now - last_failure_time <= circuit_reset_timeout)]_vars

\* C9, for calls in the first iteration of their loop only: they too reach the
\* upstream while the breaker, opened by another call, is open.
C9_NoAttemptWhileOpen_OtherCall ==
    [][\A c \in Calls :
        (Sends(c) /\ attempt[c] = 0) =>
            ~(circuit_open /\ now - last_failure_time <= circuit_reset_timeout)]_vars

\* C9, amended: while the breaker is open and circuit_reset_timeout has not
\* passed since the last failure, every call that starts is blocked: it ends
\* at once with the circuit-open error, is not counted, and never reaches the
\* upstream.  (A call that passed the breaker check earlier goes on with its
\* attempts.)
C9_StartedWhileOpenIsBlocked ==
    [][\A c \in Calls :
        /\ (/\ Starts(c)
            /\ circuit_open
            /\ now - last_failure_time <= circuit_reset_timeout)
           => (/\ pc'[c] = "done"
               /\ result'[c] = "blocked"
               /\ request_count' = request_count)
        /\ result[c] = "blocked" => ~Sends(c)]_vars

\* C9, witness: one call has been blocked while another, which passed the
\* breaker check before the breaker opened, is about to send.
C9_Witness ==
    \E c, d \in Calls :
        /\ result[c] = "blocked"
        /\ pc[d] = "send"
        /\ circuit_open
        /\ now - last_failure_time <= circuit_reset_timeout

\* What get(k) has to return at time t: the value of the latest set of k not
\* deleted since, while t <= its expires_at.
Expected(k, t) ==
    IF k \in DOMAIN latest /\ t <= latest[k].expires_at
      THEN latest[k].value
      ELSE None

\* C10: get(key) returns the value of the latest set of the key while
\* now <= expires_at of that entry, and None once now > expires_at, whether
\* the entry has been swept or is still stored.
C10_TTLCorrectness ==
    [][\A t \in SeqThreads :
        (cpc[t] = "get_lookup" /\ cpc'[t] = "idle")
        => ret'[t] = Expected(ckey[t], now)]_vars

\* C10, witness: a get is about to look up a key whose entry is still stored
\* and has expired since the sweep.
C10_Witness ==
    \E t \in SeqThreads :
        /\ cpc[t] = "get_lookup"
        /\ ckey[t] \in DOMAIN cache
        /\ now > cache[ckey[t]].expires_at

\* C11: a set called with an explicit ttl_seconds (0 included) computes
\* expires_at = now + ttl_seconds and stores that expiry; the default TTL is
\* used only when ttl_seconds is omitted.
C11_ExplicitTTL ==
    [][\A t \in SeqThreads :
        /\ (cpc[t] = "idle" /\ cpc'[t] = "set_store")
           => cexpires'[t] = now + (IF cttl'[t] = NoTTL THEN default_ttl_seconds
                                                       ELSE cttl'[t])
        /\ (cpc[t] = "set_store" /\ cpc'[t] = "idle")
           => cache'[ckey[t]].expires_at = cexpires[t]]_vars

\* The namespace each accessor prefix belongs to.
NamespaceOf ==
    [p \in Prefixes |->
        CASE p = "player"  -> "player_cache"
          [] p = "stats"   -> "stats_cache"
          [] p = "market"  -> "market_cache"
          [] p = "leagues" -> "league_cache"
          [] p = "search"  -> "search_cache"]

\* The step leaves every namespace but a as it was: its entries, its counters
\* and what a lookup returns for every key stored in it before or after (a
\* key stored neither before nor after is absent both times).
OthersUntouched(a) ==
    \A b \in Attributes \ {a} :
        /\ smart'[b] = smart[b]
        /\ get_stats(smart'[b]) = get_stats(smart[b])
        /\ \A k \in DOMAIN smart[b].entries \cup DOMAIN smart'[b].entries :
              CacheGet(smart'[b], k, now').value = CacheGet(smart[b], k, now).value

\* C12: a set, a delete (invalidate_player included) or a clear in one
\* namespace leaves the entries, the counters and every lookup result of the
\* other four namespaces unchanged, whatever the raw arguments.
C12_NamespaceIsolation ==
    [][/\ \A p \in Prefixes : \A args \in ArgsOf(p) : \A d \in SmartData :
            SmartSet(p, args, d) => OthersUntouched(NamespaceOf[p])
       /\ \A args \in ArgsOf("player") :
            invalidate_player(args) => OthersUntouched("player_cache")
       /\ \A a \in Attributes :
            /\ AttributeClear(a) => OthersUntouched(a)
            /\ \A k \in DOMAIN smart[a].entries :
                  AttributeDelete(a, k) => OthersUntouched(a)]_vars

\* C12, witness: the player and the search namespaces both hold an entry made
\* from the raw argument "1".
C12_Witness ==
    /\ make_key("player", <<Str1>>) \in DOMAIN smart["player_cache"].entries
    /\ make_key("search", <<Str1>>) \in DOMAIN smart["search_cache"].entries

\* C13: a set of a key that is already stored replaces its entry: afterwards
\* the key holds the new value with the expiry the second set computed, the
\* cache holds as many entries as before (one for the key) and the other
\* entries are as they were; a get that then finds the entry live returns the
\* new value.
C13_Overwrite ==
    [][\A t \in SeqThreads :
        /\ (cpc[t] = "set_store" /\ cpc'[t] = "idle" /\ ckey[t] \in DOMAIN cache)
           => /\ cache'[ckey[t]].value = cvalue[t]
              /\ cache'[ckey[t]].expires_at = cexpires[t]
              /\ DOMAIN cache' = DOMAIN cache
              /\ Cardinality(DOMAIN cache') = Cardinality(DOMAIN cache)
              /\ \A k \in DOMAIN cache \ {ckey[t]} : cache'[k] = cache[k]
        /\ (cpc[t] = "get_lookup" /\ cpc'[t] = "idle"
              /\ ckey[t] \in DOMAIN latest /\ now <= latest[ckey[t]].expires_at)
           => ret'[t] = latest[ckey[t]].value]_vars

\* C13, witness: a set is about to store a value over a live entry of the same
\* key that holds another value and another expiry.
C13_Witness ==
    \E t \in SeqThreads :
        /\ cpc[t] = "set_store"
        /\ ckey[t] \in DOMAIN cache
        /\ cache[ckey[t]].value # cvalue[t]
        /\ cache[ckey[t]].expires_at # cexpires[t]
        /\ now <= cache[ckey[t]].expires_at

\* C14: a get adds 1 to hits, leaving misses, exactly when it returns the
\* value of a live entry, and otherwise adds 1 to misses, leaving hits, and
\* returns None; no other step changes hits or misses, so hits + misses is the
\* number of get calls made; as long as nothing has been set every get is a
\* miss and hit_rate is 0.
C14_HitMissAccounting ==
    [][/\ \A t \in SeqThreads :
            IF cpc[t] = "get_lookup" /\ cpc'[t] = "idle"
              THEN LET live == /\ ckey[t] \in DOMAIN cache
                               /\ now <= cache[ckey[t]].expires_at
                   IN  IF live
                         THEN /\ hits' = hits + 1
                              /\ misses' = misses
                              /\ ret'[t] = cache[ckey[t]].value
                         ELSE /\ misses' = misses + 1
                              /\ hits' = hits
                              /\ ret'[t] = None
              ELSE hits' = hits /\ misses' = misses
       /\ hits' + misses' = getCalls'
       /\ setCalls' = 0 => /\ misses' = getCalls'
                           /\ hits' = 0
                           /\ hit_rate(hits', hits' + misses')[1] = 0]_vars

\* C14, witness: two gets have been made, one a hit and one a miss.
C14_Witness == getCalls = 2 /\ hits = 1 /\ misses = 1

\* C15: with several calls in progress, the step that completes an increment
\* raises the shared counter by exactly 1: request_count when a started call
\* counts itself, consecutive_failures and error_count when a failure is
\* recorded.
C15_NoLostUpdates ==
    [][\A c \in Calls :
        /\ (pc[c] = "count_st" /\ pc'[c] # "count_st")
           => request_count' = request_count + 1
        /\ (pc[c] = "rf_cf_st" /\ pc'[c] # "rf_cf_st")
           => consecutive_failures' = consecutive_failures + 1
        /\ (pc[c] = "rf_ec_st" /\ pc'[c] # "rf_ec_st")
           => error_count' = error_count + 1]_vars

\* C15, on the started calls alone: request_count is the number of calls that
\* have counted themselves.
C15_RequestsCounted ==
    request_count = Cardinality({c \in Calls :
                        /\ pc[c] \notin {"idle", "reset", "count_ld", "count_st"}
                        /\ result[c] # "blocked"})

\* C16: a call whose awaiting coroutine was cancelled at an attempt boundary
\* is not counted as a success afterwards: no step of it in _record_success
\* resets consecutive_failures or closes the breaker.
C16_CancelledNeverSucceeds ==
    [][\A c \in SeqCalls :
        (cancelled[c] = "boundary" /\ pc[c] \in {"rs_cf", "rs_open"} /\ pc'[c] # pc[c])
        => /\ consecutive_failures' = consecutive_failures
           /\ circuit_open' = circuit_open]_vars

\* C17: the loop index of a call never exceeds max_retries, so the loop makes
\* at most max_retries + 1 attempts (session.get calls) and at most
\* max_retries sleeps (one before each attempt but the first), and every call
\* that has started ends by returning or raising.
C17_Termination ==
    /\ [](\A c \in SeqCalls : attempt[c] <= max_retries)
    /\ \A c \in SeqCalls : (pc[c] \notin {"idle", "done"}) ~> (pc[c] = "done")

\* C17, witness: a call has raised on its last attempt, after max_retries
\* sleeps, with max_retries at least 1.
C17_Witness ==
    \E c \in SeqCalls :
        /\ pc[c] = "done"
        /\ result[c] = "raised"
        /\ max_retries >= 1
        /\ attempt[c] = max_retries

C23_FlagMatchesCounter ==
    (\A c \in Calls : pc[c] \in {"idle", "done"})
    => (circuit_open <=> consecutive_failures >= circuit_breaker_threshold)

\* C24: a call that passed the breaker and has ended either returned a 2xx
\* response, with the success recorded (consecutive_failures 0, breaker closed,
\* no error counted), or raised, with a failure recorded (error_count raised);
\* it did not return a response of another status.
C24_ReturnsSuccessOrRaises ==
    \A c \in SeqCalls :
        (pc[c] = "done" /\ result[c] # "blocked")
        => \/ /\ result[c] = "returned"
              /\ consecutive_failures = 0
              /\ ~circuit_open
           \/ /\ result[c] = "raised"
              /\ error_count > ec0[c]
              /\ consecutive_failures > 0

\* C25: a call the open breaker rejects changes nothing of the client:
\* request_count, error_count, rate_limit_count, consecutive_failures,
\* circuit_open and last_failure_time are as before, so the time from which
\* the lazy reset is possible does not move.
C25_RejectedChangesNothing ==
    [][\A c \in SeqCalls :
        (Starts(c) /\ result'[c] = "blocked")
        => /\ request_count' = request_count
           /\ error_count' = error_count
           /\ rate_limit_count' = rate_limit_count
           /\ consecutive_failures' = consecutive_failures
           /\ circuit_open' = circuit_open
           /\ last_failure_time' = last_failure_time]_vars

\* C25, witness: a call has been rejected exactly circuit_reset_timeout after
\* the last failure, which was later than the start of the run.
C25_Witness ==
    \E c \in SeqCalls :
        /\ pc[c] = "done"
        /\ result[c] = "blocked"
        /\ circuit_open
        /\ now > last_failure_time
        /\ now - last_failure_time = circuit_reset_timeout

\* C26: error_count never exceeds request_count, so the error_rate of
\* get_telemetry, error_count / max(request_count, 1), is between 0 and 1.
C26_ErrorsWithinRequests ==
    /\ error_count <= request_count
    /\ 0 <= error_count
    /\ error_count <= (IF request_count > 1 THEN request_count ELSE 1)

\* The stored entries that are expired at time t.
ExpiredIn(c, t) == DOMAIN c \ Live(c, t)

C28_ExpiryFromCreation ==
    [][\A t \in Threads :
        (cpc[t] = "set_store" /\ cpc'[t] = "idle")
        => cache'[ckey[t]].expires_at
             = cache'[ckey[t]].created_at
                 + EffectiveTTL(cttl[t], default_ttl_seconds)]_vars

C30_KeysSeparateLookups ==
    [][\A a1 \in MarketArgs : \A d \in SmartData :
        SmartSet("market", a1, d)
        => \A a2 \in MarketArgs \ {a1} :
              CacheGet(smart'["market_cache"], KeyOf("market", a2), now').value
                = CacheGet(smart["market_cache"], KeyOf("market", a2), now).value]_vars
====
